---- MODULE Spec2Model ----
(***************************************************************************)
(* One invocation of SimpleHTTPMiddleware.__call__                         *)
(* (src/starlette/middleware/simple.py): the adapter drives a two-phase    *)
(* dispatch generator around an inner ASGI application.                    *)
(*                                                                         *)
(* The dispatch generator, the inner application and the real send sink    *)
(* are the environment: what they do is chosen nondeterministically, step  *)
(* by step.  The inner application lets an exception raised by its send    *)
(* callable propagate; a dispatch generator that is closed while suspended *)
(* unwinds (GeneratorExit) without raising.                                *)
(*                                                                         *)
(* starlette.responses.Response and starlette.datastructures.Headers are   *)
(* modelled from their description in spec.md, sections 3, 4.1 and 6.      *)
(***************************************************************************)
EXTENDS Naturals, Sequences, FiniteSets, TLC

VARIABLES
  pc,        \* position of the __call__ coroutine
  genState,  \* state of the dispatch generator object
  first,     \* http_connection_or_response (line 44)
  cur,       \* the message dict held by the running wrapped_send call
  appSent,   \* messages the inner application passed to wrapped_send, as passed
  sink,      \* calls of the real send: [msg, idx]; idx indexes appSent, 0 = response
  exc,       \* exception propagating out of the current frame ("none": none)
  phase2,    \* what the generator's second phase did: [idx, mut, end]
  log        \* order of the events of this invocation

vars == <<pc, genState, first, cur, appSent, sink, exc, phase2, log>>

\* A stack of adapters around a handler, one connection (SpecStack).
VARIABLES
  sPc,       \* what runs: enter, decide, short, handler, wsend, send, unwind, done
  sCur,      \* the frame whose code runs: a layer (1 outermost), NLayers + 1 the handler
  sOrigin,   \* the frame that passed the message in flight to its send
  sHop,      \* the layer whose wrapped_send holds the message in flight
  sMsg,      \* the message in flight
  sCount,    \* per frame, the number of messages it passed to its send
  sGen,      \* per layer, the state of its dispatch generator
  sFirst,    \* per layer, what its generator yielded first
  sScope,    \* per frame, the scope object it was called with
  sBag,      \* per scope object, its state bag
  sPhase2,   \* per layer, what its second phase did: [origin, idx, mut, end]
  sSink,     \* calls of the real send: [msg, origin, idx]
  sExc,      \* exception propagating
  sLog       \* order of the events: [ev, who, bag, msg]

svars == <<sPc, sCur, sOrigin, sHop, sMsg, sCount, sGen, sFirst, sScope, sBag,
           sPhase2, sSink, sExc, sLog>>

\* One adapter instance and the invocations of it that are in flight at once.
VARIABLES
  inst,      \* the instance: outcome of __init__, _app, _dispatch
  ctor,      \* what the constructor was called with
  cPc,       \* per invocation, its position in __call__
  cGen,      \* per invocation, the generator object its local `gen` names
  cView,     \* per invocation, the state it last left its generator in
  gens,      \* per generator object, its state and the invocations that used it
  nGens,     \* number of generator objects created
  cFirst,    \* per invocation, what its generator yielded first
  cMsg,      \* per invocation, the message in its wrapped_send
  cCount,    \* per invocation, messages its application has passed
  cSink,     \* per invocation, what its real send received
  cExc       \* per invocation, the exception in flight

cvars == <<inst, ctor, cPc, cGen, cView, gens, nGens, cFirst, cMsg, cCount,
           cSink, cExc>>

\* ------------------------------------------------------------------ bounds

\* The inner application passes at most this many messages to its send.
MaxAppMsgs == 3

\* The handler of a stack passes at most this many messages to its send.
MaxHandlerMsgs == 2

\* Adapters stacked around the handler (test_state_data_across_multiple_middlewares).
NLayers == 3

\* Invocations of one instance in flight at once.
NConns == 2

\* Messages the application of each of those invocations may pass to its send.
MaxConnMsgs == 1

\* ------------------------------------------------------------- value model

None == "<None>"

START == "http.response.start"
BODY == "http.response.body"

\* Case folding of the header names used below (case-insensitive keys).
Lower(s) ==
  CASE s = "Content-Type" -> "content-type"
    [] s = "Custom-Header" -> "custom-header"
    [] s = "X-A" -> "x-a"
    [] OTHER -> s

Range(s) == {s[i] : i \in 1..Len(s)}

Count(s, e) == Cardinality({i \in 1..Len(s) : s[i] = e})

IsPrefix(s, t) == Len(s) <= Len(t) /\ \A i \in 1..Len(s) : s[i] = t[i]

\* Header lists (raw pairs, lower-case names as on the wire) of the start
\* messages the inner application may emit.
HNone == << >>
HText == << <<"content-type", "text/plain; charset=utf-8">>,
            <<"content-length", "8">> >>
HJson == << <<"content-type", "application/json">>,
            <<"x-a", "1">>,
            <<"set-cookie", "a">>,
            <<"set-cookie", "b">> >>

HHtml == << <<"content-type", "text/html">> >>

HeaderLists == {HNone, HText, HJson, HHtml}


Msg(t, s, h, b) == [type |-> t, status |-> s, headers |-> h, body |-> b]

NoMsg == Msg("nil", 0, << >>, "")

\* A 200 start message with each header list, and a bare 204 one.
StartMsgs ==
  {Msg(START, 200, h, "") : h \in HeaderLists} \cup {Msg(START, 204, HNone, "")}

OtherMsgs == {Msg(BODY, 0, << >>, "Ok"), Msg("websocket.send", 0, << >>, "Hello")}

AppMsgs == StartMsgs \cup OtherMsgs

\* ------------------------------------------- Headers / Response (spec.md)

\* Headers(raw=...): a view over the raw pairs.
Headers(raw) == [raw |-> raw]

\* Headers.get(key): case-insensitive lookup, first match, None when absent.
HeadersGet(h, key) ==
  LET hits == {i \in 1..Len(h.raw) : Lower(h.raw[i][1]) = Lower(key)}
  IN  IF hits = {} THEN None
      ELSE h.raw[CHOOSE i \in hits : \A j \in hits : i <= j][2]

\* response.headers[key] = value: replaces the value of the (first) header of
\* that name, case-insensitively, or appends a new pair.
RECURSIVE DropKey(_, _)
DropKey(raw, k) ==
  IF raw = << >> THEN << >>
  ELSE IF Lower(Head(raw)[1]) = k THEN DropKey(Tail(raw), k)
       ELSE <<Head(raw)>> \o DropKey(Tail(raw), k)

HeadersSet(raw, key, value) ==
  LET k == Lower(key)
      hits == {i \in 1..Len(raw) : Lower(raw[i][1]) = k}
  IN  IF hits = {} THEN Append(raw, <<k, value>>)
      ELSE LET f == CHOOSE i \in hits : \A j \in hits : i <= j
           IN  SubSeq(raw, 1, f - 1) \o << <<k, value>> >>
                 \o DropKey(SubSeq(raw, f + 1, Len(raw)), k)

\* The content-type value of a media type: the media type with its default
\* charset parameter.
ContentTypeOf(media_type) ==
  CASE media_type = "text/plain" -> "text/plain; charset=utf-8"
    [] media_type = "text/html" -> "text/html; charset=utf-8"
    [] OTHER -> media_type

\* The response descriptor: status code, headers, media type.
UnsendableResponse(status_code, headers, media_type) ==
  [status_code |-> status_code, raw_headers |-> headers.raw,
   media_type |-> media_type]

\* response.init_headers(headers): the header set regenerated from `headers`
\* as the baseline, then the media type's content-type value applied.
InitHeaders(response, headers) ==
  [response EXCEPT !.raw_headers =
     IF response.media_type = None THEN headers.raw
     ELSE HeadersSet(headers.raw, "Content-Type",
                     ContentTypeOf(response.media_type))]

\* A real response yielded by the generator to short-circuit.
ShortResponses ==
  {[kind |-> "response", status_code |-> 401,
    raw_headers |-> << <<"content-length", "0">> >>, body |-> ""]}

\* Response.__call__(scope, receive, send): the messages it passes to send.
ResponseMessages(r) ==
  << Msg(START, r.status_code, r.raw_headers, ""),
     Msg(BODY, 0, << >>, r.body) >>

\* ------------------------------------------------ the dispatch generator

\* What the generator's second phase does to the descriptor it was sent:
\* status 0 / header "" / media "" mean "left alone".
Mutations ==
  [status : {0, 401},
   header : {<<"", "">>, <<"Custom-Header", "Example">>, <<"X-A", "changed">>},
   media  : {"", "text/plain", "text/html"}]

NoMutation == [status |-> 0, header |-> <<"", "">>, media |-> ""]

Mutate(response, mut) ==
  LET r1 == IF mut.status = 0 THEN response
            ELSE [response EXCEPT !.status_code = mut.status]
      r2 == IF mut.header[1] = "" THEN r1
            ELSE [r1 EXCEPT !.raw_headers =
                    HeadersSet(r1.raw_headers, mut.header[1], mut.header[2])]
  IN  IF mut.media = "" THEN r2 ELSE [r2 EXCEPT !.media_type = mut.media]

\* ----------------------------------------------------------- wrapped_send

\* Mutants of the test of line 50.
IsResponseStartTypo(message) == message.type = "http.response.begin"

IsAnyHttpResponseMessage(message) == message.type \in {START, BODY}

\* Line 50: the test of the message type.
IsResponseStart(message) == message.type = START

\* Lines 51-57: the descriptor built from the start message.
MediaTypeOf(message) == HeadersGet(Headers(message.headers), "Content-Type")

DescriptorOf(message) ==
  UnsendableResponse(message.status, Headers(message.headers),
                     MediaTypeOf(message))

\* Mutants of lines 64-67: the headers regenerated whenever a media type is
\* set; the status not copied back; the headers never regenerated.
MergeBackAlwaysInit(message, response, media_type) ==
  LET r == IF response.media_type # None
           THEN InitHeaders(response, Headers(response.raw_headers))
           ELSE response
  IN  [message EXCEPT !.status = r.status_code, !.headers = r.raw_headers]

MergeBackNoStatus(message, response, media_type) ==
  LET r == IF response.media_type # None /\ response.media_type # media_type
           THEN InitHeaders(response, Headers(response.raw_headers))
           ELSE response
  IN  [message EXCEPT !.headers = r.raw_headers]

MergeBackNoInit(message, response, media_type) ==
  [message EXCEPT !.status = response.status_code,
                  !.headers = response.raw_headers]

\* Lines 64-67: the descriptor's status and headers copied back, the headers
\* regenerated first when the media type was changed.
MergeBack(message, response, media_type) ==
  LET r == IF response.media_type # None /\ response.media_type # media_type
           THEN InitHeaders(response, Headers(response.raw_headers))
           ELSE response
  IN  [message EXCEPT !.status = r.status_code, !.headers = r.raw_headers]

\* ------------------------------------------------------------------- Init

\* The stack before it is called.
Layers == 1..NLayers

Handler == NLayers + 1

ScopeIds == 1..(NLayers + 1)

EmptyBag == [k \in Layers |-> None]

NoPhase2 == [origin |-> 0, idx |-> 0, mut |-> NoMutation, end |-> "none"]

SIdle ==
  /\ sPc = "enter"
  /\ sCur = 1
  /\ sOrigin = 0
  /\ sHop = 0
  /\ sMsg = NoMsg
  /\ sCount = [f \in 1..Handler |-> 0]
  /\ sGen = [l \in Layers |-> "none"]
  /\ sFirst = [l \in Layers |-> [kind |-> "unset"]]
  /\ sScope = [f \in 1..Handler |-> IF f = 1 THEN 1 ELSE 0]
  /\ sBag = [i \in ScopeIds |-> EmptyBag]
  /\ sPhase2 = [l \in Layers |-> NoPhase2]
  /\ sSink = << >>
  /\ sExc = "none"
  /\ sLog = << >>

Conns == 1..NConns

GenIds == 1..NConns

NoInstance == [state |-> "none", _app |-> None, _dispatch |-> None]

CIdle ==
  /\ inst = NoInstance
  /\ ctor = [dispatch |-> None, overrides |-> FALSE]
  /\ cPc = [c \in Conns |-> "idle"]
  /\ cGen = [c \in Conns |-> 0]
  /\ cView = [c \in Conns |-> "none"]
  /\ gens = [g \in GenIds |-> [state |-> "none", users |-> {}]]
  /\ nGens = 0
  /\ cFirst = [c \in Conns |-> [kind |-> "unset"]]
  /\ cMsg = [c \in Conns |-> NoMsg]
  /\ cCount = [c \in Conns |-> 0]
  /\ cSink = [c \in Conns |-> << >>]
  /\ cExc = [c \in Conns |-> "none"]

Init ==
  /\ SIdle
  /\ CIdle
  /\ pc = "idle"
  /\ genState = "none"
  /\ first = [kind |-> "unset"]
  /\ cur = NoMsg
  /\ appSent = << >>
  /\ sink = << >>
  /\ exc = "none"
  /\ phase2 = [idx |-> 0, mut |-> NoMutation, end |-> "none"]
  /\ log = << >>

\* ---------------------------------------------------------------- __call__

\* Lines 42-43: the connection and the generator are created, aclosing entered.
Call ==
  /\ pc = "idle"
  /\ pc' = "anext"
  /\ genState' = "created"
  /\ log' = Append(log, "dispatch")
  /\ UNCHANGED <<first, cur, appSent, sink, exc, phase2>>

\* Line 44: gen.__anext__() runs the generator's first phase, which yields
\* None, yields a response, raises, or returns without yielding.
GenFirst ==
  /\ pc = "anext"
  /\ log' = Append(log, "gen.phase1")
  /\ \/ /\ first' = [kind |-> "none"]
        /\ genState' = "first_yield"
        /\ pc' = "decide"
        /\ exc' = exc
     \/ /\ first' \in ShortResponses
        /\ genState' = "first_yield"
        /\ pc' = "decide"
        /\ exc' = exc
     \/ /\ exc' \in {"GenError", "StopAsyncIteration"}
        /\ genState' = "finished"
        /\ pc' = "exit"
        /\ first' = first
  /\ UNCHANGED <<cur, appSent, sink, phase2>>

\* Lines 45-47: the yielded response is called with (scope, receive, send);
\* each step is one call of the real send by the response.
ShortCircuit ==
  /\ pc = "decide"
  /\ first.kind = "response"
  /\ pc' = "short"
  /\ UNCHANGED <<genState, first, cur, appSent, sink, exc, log, phase2>>

ResponseSend ==
  /\ pc = "short"
  /\ LET msgs == ResponseMessages(first)
         n == Len(sink) + 1
     IN  /\ sink' = Append(sink, [msg |-> msgs[n], idx |-> 0])
         /\ \/ /\ exc' = exc
               /\ log' = Append(log, "response.send")
               /\ pc' = IF n = Len(msgs) THEN "exit" ELSE "short"
            \/ /\ exc' \in {"SendError", "Cancelled"}
               /\ log' = log \o <<"response.send", "send.raise">>
               /\ pc' = "exit"
  /\ UNCHANGED <<genState, first, cur, appSent, phase2>>

\* Mutant of line 45: the inner application is invoked whatever was yielded.
InvokeAppUnguarded ==
  /\ pc = "decide"
  /\ pc' = "app"
  /\ log' = Append(log, "app.call")
  /\ UNCHANGED <<genState, first, cur, appSent, sink, exc, phase2>>

\* Lines 45, 49, 70: the inner application is invoked with wrapped_send.
InvokeApp ==
  /\ pc = "decide"
  /\ first.kind = "none"
  /\ pc' = "app"
  /\ log' = Append(log, "app.call")
  /\ UNCHANGED <<genState, first, cur, appSent, sink, exc, phase2>>

\* ------------------------------------------------- the inner application

AppSend ==
  /\ pc = "app"
  /\ Len(appSent) < MaxAppMsgs
  /\ \E m \in AppMsgs :
       /\ appSent' = Append(appSent, m)
       /\ cur' = m
  /\ pc' = "wsend"
  /\ UNCHANGED <<genState, first, sink, exc, log, phase2>>

AppReturn ==
  /\ pc = "app"
  /\ pc' = "exit"
  /\ UNCHANGED <<genState, first, cur, appSent, sink, exc, log, phase2>>

\* The application raises, or is cancelled while it awaits.
AppRaise ==
  /\ pc = "app"
  /\ \E e \in {"AppError", "Cancelled"} :
       /\ exc' = e
       /\ log' = Append(log, IF e = "AppError" THEN "app.raise" ELSE "app.cancel")
  /\ pc' = "exit"
  /\ UNCHANGED <<genState, first, cur, appSent, sink, phase2>>

\* ----------------------------------------------------------- wrapped_send

\* Mutant of lines 58-63: the else branch is missing.
AsendOutcomeNoElse(ending) ==
  CASE ending = "stop" -> "none"
    [] ending = "yield" -> "none"
    [] OTHER -> "GenError"

\* Mutant of lines 58-63: every exception of asend is caught.
AsendOutcomeCatchAll(ending) ==
  CASE ending = "stop" -> "none"
    [] ending = "yield" -> "RuntimeError: Generator did not stop"
    [] OTHER -> "none"

\* Lines 58-63: what wrapped_send does with the way gen.asend(response) ended:
\* StopAsyncIteration is caught, a further yield is a RuntimeError, any other
\* exception is not caught.
AsendOutcome(ending) ==
  CASE ending = "stop" -> "none"
    [] ending = "yield" -> "RuntimeError: Generator did not stop"
    [] OTHER -> "GenError"

\* Lines 50-67 for a response-start message.  asend on a finished generator
\* raises StopAsyncIteration at once; on the generator suspended at its first
\* yield it runs the second phase, which stops, yields again or raises.
Intercept ==
  /\ pc = "wsend"
  /\ IsResponseStart(cur)
  /\ LET media_type == MediaTypeOf(cur)
         response == DescriptorOf(cur)
     IN  \/ /\ genState = "finished"
            /\ log' = Append(log, "gen.asend")
            /\ cur' = MergeBack(cur, response, media_type)
            /\ pc' = "forward"
            /\ UNCHANGED <<genState, phase2, exc>>
         \/ /\ genState = "first_yield"
            /\ log' = log \o <<"gen.asend", "gen.phase2">>
            /\ \E ending \in {"stop", "yield", "raise"} :
                 \E mut \in (IF ending = "stop" THEN Mutations ELSE {NoMutation}) :
                   /\ phase2' = [idx |-> Len(appSent), mut |-> mut, end |-> ending]
                   /\ genState' = IF ending = "yield" THEN "second_yield"
                                  ELSE "finished"
                   /\ exc' = AsendOutcome(ending)
                   /\ IF AsendOutcome(ending) = "none"
                      THEN /\ cur' = MergeBack(cur, Mutate(response, mut), media_type)
                           /\ pc' = "forward"
                      ELSE /\ cur' = cur
                           /\ pc' = "exit"
  /\ UNCHANGED <<first, appSent, sink>>

\* Mutant of line 68: the send is inside the if block of line 50.
PassThroughDrop ==
  /\ pc = "wsend"
  /\ ~IsResponseStart(cur)
  /\ pc' = "app"
  /\ cur' = NoMsg
  /\ UNCHANGED <<genState, first, appSent, sink, exc, log, phase2>>

\* Line 50 for any other message: nothing is done before line 68.
PassThrough ==
  /\ pc = "wsend"
  /\ ~IsResponseStart(cur)
  /\ pc' = "forward"
  /\ UNCHANGED <<genState, first, cur, appSent, sink, exc, log, phase2>>

\* Mutant of line 68: an exception of the real send is caught.
ForwardSwallow ==
  /\ pc = "forward"
  /\ sink' = Append(sink, [msg |-> cur, idx |-> Len(appSent)])
  /\ cur' = NoMsg
  /\ exc' = exc
  /\ pc' = "app"
  /\ \/ log' = Append(log, cur.type)
     \/ log' = log \o <<cur.type, "send.raise">>
  /\ UNCHANGED <<genState, first, appSent, phase2>>

\* Line 68: the message is passed to the real send, which returns, raises,
\* or is cancelled.
Forward ==
  /\ pc = "forward"
  /\ sink' = Append(sink, [msg |-> cur, idx |-> Len(appSent)])
  /\ cur' = NoMsg
  /\ \/ /\ exc' = exc
        /\ log' = Append(log, cur.type)
        /\ pc' = "app"
     \/ /\ exc' \in {"SendError", "Cancelled"}
        /\ log' = log \o <<cur.type, "send.raise">>
        /\ pc' = "exit"
  /\ UNCHANGED <<genState, first, appSent, phase2>>

\* Mutants of line 43: the generator is not wrapped in aclosing; the block
\* swallows the exception.
ExitNoClose ==
  /\ pc = "exit"
  /\ pc' = "done"
  /\ UNCHANGED <<genState, first, cur, appSent, sink, exc, phase2, log>>

ExitSuppress ==
  /\ pc = "exit"
  /\ log' = Append(log, "gen.aclose")
  /\ genState' = "finished"
  /\ pc' = "done"
  /\ exc' = "none"
  /\ UNCHANGED <<first, cur, appSent, sink, phase2>>

\* Mutant of line 43: a generator still suspended at its first yield is
\* driven through its second phase when the block is left.
ExitDrain ==
  /\ pc = "exit"
  /\ log' = IF genState = "first_yield" THEN Append(log, "gen.phase2")
            ELSE Append(log, "gen.aclose")
  /\ genState' = "finished"
  /\ pc' = "done"
  /\ UNCHANGED <<first, cur, appSent, sink, exc, phase2>>

\* Line 43, leaving the block: aclosing calls gen.aclose(); a suspended
\* generator is unwound, a finished one is left as it is.  The return value
\* or the exception of the block is what __call__ ends with.
Exit ==
  /\ pc = "exit"
  /\ log' = Append(log, "gen.aclose")
  /\ genState' = "finished"
  /\ pc' = "done"
  /\ UNCHANGED <<first, cur, appSent, sink, exc, phase2>>

Next ==
  \/ Call /\ UNCHANGED <<svars, cvars>>
  \/ GenFirst /\ UNCHANGED <<svars, cvars>>
  \/ ShortCircuit /\ UNCHANGED <<svars, cvars>>
  \/ ResponseSend /\ UNCHANGED <<svars, cvars>>
  \/ InvokeApp /\ UNCHANGED <<svars, cvars>>
  \/ AppSend /\ UNCHANGED <<svars, cvars>>
  \/ AppReturn /\ UNCHANGED <<svars, cvars>>
  \/ AppRaise /\ UNCHANGED <<svars, cvars>>
  \/ Intercept /\ UNCHANGED <<svars, cvars>>
  \/ PassThrough /\ UNCHANGED <<svars, cvars>>
  \/ Forward /\ UNCHANGED <<svars, cvars>>
  \/ Exit /\ UNCHANGED <<svars, cvars>>

Spec == Init /\ [][Next]_<<vars, svars, cvars>>

\* ----------------------------------------------------- a stack of adapters

\* Line 70 (and 46): the scope object a layer hands on is the one it received.
FreshScope(scope) == scope + 1

PassScope(scope) == scope

\* The value a layer's generator stores in the state bag, and the header its
\* second phase sets.
BagValue(l) == CASE l = 1 -> "foo" [] l = 2 -> "bar" [] OTHER -> "baz"

LayerHeader(l) ==
  CASE l = 1 -> <<"x-layer-a", "A">>
    [] l = 2 -> <<"x-layer-b", "B">>
    [] OTHER -> <<"x-layer-c", "C">>

\* What the second phase of layer l may do to the descriptor.
LayerMutations(l) ==
  {NoMutation,
   [status |-> 0, header |-> LayerHeader(l), media |-> ""],
   [status |-> 0, header |-> LayerHeader(l), media |-> "text/plain"]}

HandlerMsgs == {Msg(START, 200, HText, ""), Msg(BODY, 0, << >>, "Ok")}

Event(ev, who, bag, msg) == [ev |-> ev, who |-> who, bag |-> bag, msg |-> msg]

\* Where control goes when frame f's send raises or its code ends: the
\* handler's caller is the innermost layer, a layer unwinds itself.
UnwindFrom(f) == IF f = Handler THEN NLayers ELSE f

\* Lines 42-44 of layer l: the generator is created and its first phase runs;
\* it may store its value in the state bag of the scope, and yields None,
\* yields a response, or raises.
SEnter ==
  /\ sPc = "enter"
  /\ sCur \in Layers
  /\ LET l == sCur
         sc == sScope[l]
     IN  \E sets \in BOOLEAN, outcome \in {"none", "response", "raise"} :
           LET bag == IF sets THEN [sBag EXCEPT ![sc][l] = BagValue(l)] ELSE sBag
           IN  /\ sBag' = bag
               /\ sLog' = Append(sLog, Event("phase1", l, bag[sc], NoMsg))
               /\ IF outcome = "raise"
                  THEN /\ sGen' = [sGen EXCEPT ![l] = "finished"]
                       /\ sExc' = "GenError"
                       /\ sPc' = "unwind"
                       /\ sFirst' = sFirst
                  ELSE /\ sGen' = [sGen EXCEPT ![l] = "first_yield"]
                       /\ sExc' = sExc
                       /\ sPc' = "decide"
                       /\ sFirst' =
                            [sFirst EXCEPT ![l] =
                               IF outcome = "none" THEN [kind |-> "none"]
                               ELSE CHOOSE r \in ShortResponses : TRUE]
  /\ UNCHANGED <<sCur, sOrigin, sHop, sMsg, sCount, sScope, sPhase2, sSink>>

\* Lines 45-47 of layer l: the yielded response is called with the layer's send.
SShortCircuit ==
  /\ sPc = "decide"
  /\ sFirst[sCur].kind = "response"
  /\ sPc' = "short"
  /\ UNCHANGED <<sCur, sOrigin, sHop, sMsg, sCount, sGen, sFirst, sScope, sBag,
                 sPhase2, sSink, sExc, sLog>>

\* Mutant of line 46: the response is called with the real send instead of
\* the send the layer received.
SResponseSendDirect ==
  /\ sPc = "short"
  /\ LET l == sCur
         msgs == ResponseMessages(sFirst[l])
     IN  /\ sMsg' = msgs[sCount[l] + 1]
         /\ sCount' = [sCount EXCEPT ![l] = @ + 1]
         /\ sOrigin' = l
         /\ sHop' = 0
         /\ sPc' = "send"
  /\ UNCHANGED <<sCur, sGen, sFirst, sScope, sBag, sPhase2, sSink, sExc, sLog>>

\* The response passes its next message to the send of layer l: the
\* wrapped_send of the layer around it, or the real send.
SResponseSend ==
  /\ sPc = "short"
  /\ LET l == sCur
         msgs == ResponseMessages(sFirst[l])
     IN  /\ sMsg' = msgs[sCount[l] + 1]
         /\ sCount' = [sCount EXCEPT ![l] = @ + 1]
         /\ sOrigin' = l
         /\ sHop' = l - 1
         /\ sPc' = IF l = 1 THEN "send" ELSE "wsend"
  /\ UNCHANGED <<sCur, sGen, sFirst, sScope, sBag, sPhase2, sSink, sExc, sLog>>

\* Lines 45, 49, 70 of layer l: what it wraps is called with its scope and
\* its wrapped_send.
SInvoke ==
  /\ sPc = "decide"
  /\ sFirst[sCur].kind = "none"
  /\ LET l == sCur
         sc == PassScope(sScope[l])
     IN  /\ sCur' = l + 1
         /\ sScope' = [sScope EXCEPT ![l + 1] = sc]
         /\ IF l = NLayers
            THEN /\ sPc' = "handler"
                 /\ sLog' = Append(sLog, Event("handler", Handler, sBag[sc], NoMsg))
            ELSE /\ sPc' = "enter"
                 /\ sLog' = sLog
  /\ UNCHANGED <<sOrigin, sHop, sMsg, sCount, sGen, sFirst, sBag, sPhase2,
                 sSink, sExc>>

\* The handler passes a message to its send, the innermost wrapped_send.
SHandlerSend ==
  /\ sPc = "handler"
  /\ sCount[Handler] < MaxHandlerMsgs
  /\ \E m \in HandlerMsgs : sMsg' = m
  /\ sCount' = [sCount EXCEPT ![Handler] = @ + 1]
  /\ sOrigin' = Handler
  /\ sHop' = NLayers
  /\ sPc' = "wsend"
  /\ UNCHANGED <<sCur, sGen, sFirst, sScope, sBag, sPhase2, sSink, sExc, sLog>>

\* The handler returns or raises.
SHandlerEnd ==
  /\ sPc = "handler"
  /\ sExc' \in {"none", "AppError"}
  /\ sCur' = NLayers
  /\ sPc' = "unwind"
  /\ UNCHANGED <<sOrigin, sHop, sMsg, sCount, sGen, sFirst, sScope, sBag,
                 sPhase2, sSink, sLog>>

\* Lines 50-68 of the wrapped_send of layer sHop: a start message resumes the
\* layer's generator (which stops, yields again or raises) and gets the
\* descriptor copied back; the message is then passed to the layer's send.
SWrappedSend ==
  /\ sPc = "wsend"
  /\ LET h == sHop
         media_type == MediaTypeOf(sMsg)
         response == DescriptorOf(sMsg)
         onward == IF h = 1 THEN "send" ELSE "wsend"
     IN  \/ /\ ~IsResponseStart(sMsg)
            /\ sHop' = h - 1
            /\ sPc' = onward
            /\ UNCHANGED <<sCur, sMsg, sGen, sPhase2, sExc, sLog>>
         \/ /\ IsResponseStart(sMsg)
            /\ sGen[h] = "finished"
            /\ sMsg' = MergeBack(sMsg, response, media_type)
            /\ sHop' = h - 1
            /\ sPc' = onward
            /\ UNCHANGED <<sCur, sGen, sPhase2, sExc, sLog>>
         \/ /\ IsResponseStart(sMsg)
            /\ sGen[h] = "first_yield"
            /\ sLog' = Append(sLog, Event("phase2", h, sBag[sScope[h]], sMsg))
            /\ \E ending \in {"stop", "yield", "raise"} :
                 \E mut \in (IF ending = "stop" THEN LayerMutations(h)
                             ELSE {NoMutation}) :
                   /\ sPhase2' = [sPhase2 EXCEPT ![h] =
                        [origin |-> sOrigin, idx |-> sCount[sOrigin],
                         mut |-> mut, end |-> ending]]
                   /\ sGen' = [sGen EXCEPT ![h] =
                        IF ending = "yield" THEN "second_yield" ELSE "finished"]
                   /\ sExc' = AsendOutcome(ending)
                   /\ IF AsendOutcome(ending) = "none"
                      THEN /\ sMsg' = MergeBack(sMsg, Mutate(response, mut), media_type)
                           /\ sHop' = h - 1
                           /\ sPc' = onward
                           /\ sCur' = sCur
                      ELSE /\ sMsg' = NoMsg
                           /\ sHop' = 0
                           /\ sPc' = "unwind"
                           /\ sCur' = UnwindFrom(sOrigin)
  /\ UNCHANGED <<sOrigin, sCount, sFirst, sScope, sBag, sSink>>

\* The real send is called by the outermost layer's line 68 (or by its
\* response); it returns or raises, and control is back in the frame that
\* passed the message.
SRealSend ==
  /\ sPc = "send"
  /\ sSink' = Append(sSink, [msg |-> sMsg, origin |-> sOrigin,
                             idx |-> sCount[sOrigin]])
  /\ sLog' = Append(sLog, Event("sink", sOrigin, EmptyBag, sMsg))
  /\ sMsg' = NoMsg
  /\ sHop' = 0
  /\ \/ /\ sExc' = sExc
        /\ sCur' = sCur
        /\ sPc' = IF sOrigin = Handler THEN "handler"
                  ELSE IF sCount[sOrigin] < Len(ResponseMessages(sFirst[sOrigin]))
                       THEN "short" ELSE "unwind"
     \/ /\ sExc' = "SendError"
        /\ sCur' = UnwindFrom(sOrigin)
        /\ sPc' = "unwind"
  /\ UNCHANGED <<sOrigin, sCount, sGen, sFirst, sScope, sBag, sPhase2>>

\* Line 43 of layer sCur, leaving the block: its generator is closed, and
\* control is back in the layer around it.
SExit ==
  /\ sPc = "unwind"
  /\ sCur \in Layers
  /\ sGen' = [sGen EXCEPT ![sCur] = "finished"]
  /\ sLog' = Append(sLog, Event("close", sCur, EmptyBag, NoMsg))
  /\ sCur' = sCur - 1
  /\ sPc' = IF sCur = 1 THEN "done" ELSE "unwind"
  /\ UNCHANGED <<sOrigin, sHop, sMsg, sCount, sFirst, sScope, sBag, sPhase2,
                 sSink, sExc>>

SInit ==
  /\ SIdle
  /\ CIdle
  /\ pc = "idle"
  /\ genState = "none"
  /\ first = [kind |-> "unset"]
  /\ cur = NoMsg
  /\ appSent = << >>
  /\ sink = << >>
  /\ exc = "none"
  /\ phase2 = [idx |-> 0, mut |-> NoMutation, end |-> "none"]
  /\ log = << >>

SNext ==
  \/ SEnter /\ UNCHANGED <<vars, cvars>>
  \/ SShortCircuit /\ UNCHANGED <<vars, cvars>>
  \/ SResponseSend /\ UNCHANGED <<vars, cvars>>
  \/ SInvoke /\ UNCHANGED <<vars, cvars>>
  \/ SHandlerSend /\ UNCHANGED <<vars, cvars>>
  \/ SHandlerEnd /\ UNCHANGED <<vars, cvars>>
  \/ SWrappedSend /\ UNCHANGED <<vars, cvars>>
  \/ SRealSend /\ UNCHANGED <<vars, cvars>>
  \/ SExit /\ UNCHANGED <<vars, cvars>>

SpecStack == SInit /\ [][SNext]_<<vars, svars, cvars>>

\* ------------------------- construction, and invocations in flight at once

BaseDispatch == "SimpleHTTPMiddleware.dispatch"

\* self.dispatch: the subclass's method if it overrides dispatch (line 35).
ClassDispatch(overrides) ==
  IF overrides THEN "Subclass.dispatch" ELSE BaseDispatch

\* Mutant of lines 34-39: no check that a dispatch function exists.
NewInstanceUnchecked(app, dispatch, overrides) ==
  [state |-> "ok", _app |-> app,
   _dispatch |-> IF dispatch = None THEN ClassDispatch(overrides) ELSE dispatch]

\* Lines 28-39, __init__: the instance, or the ValueError that leaves none.
NewInstance(app, dispatch, overrides) ==
  IF dispatch = None
  THEN IF ClassDispatch(overrides) = BaseDispatch
       THEN [state |-> "ValueError", _app |-> None, _dispatch |-> None]
       ELSE [state |-> "ok", _app |-> app, _dispatch |-> ClassDispatch(overrides)]
  ELSE [state |-> "ok", _app |-> app, _dispatch |-> dispatch]

\* Mutant of line 43: every call of the dispatch function returns the same
\* generator object.
SharedGen(n) == 1

\* Line 43, self._dispatch(conn): calling the dispatch function makes a new
\* generator object.
NewGen(n) == n + 1

\* The constructor is called, with or without a dispatch argument, on the
\* class itself or on a subclass overriding dispatch.
Construct ==
  /\ inst.state = "none"
  /\ \E dispatch \in {None, "dispatch_arg"}, overrides \in BOOLEAN :
       /\ ctor' = [dispatch |-> dispatch, overrides |-> overrides]
       /\ inst' = NewInstance("app", dispatch, overrides)
  /\ UNCHANGED <<cPc, cGen, cView, gens, nGens, cFirst, cMsg, cCount, cSink,
                 cExc>>

\* Lines 42-44 up to the first await of invocation c: the dispatch function
\* is called (the base class's raises NotImplementedError) and the
\* generator's first phase is started.
CEnter(c) ==
  /\ inst.state = "ok"
  /\ cPc[c] = "idle"
  /\ IF inst._dispatch = BaseDispatch
     THEN /\ cExc' = [cExc EXCEPT ![c] = "NotImplementedError"]
          /\ cPc' = [cPc EXCEPT ![c] = "done"]
          /\ UNCHANGED <<cGen, cView, gens, nGens>>
     ELSE LET g == NewGen(nGens)
              st == IF gens[g].state = "none" THEN "created" ELSE gens[g].state
          IN  /\ cGen' = [cGen EXCEPT ![c] = g]
              /\ gens' = [gens EXCEPT ![g] =
                            [state |-> st, users |-> @.users \cup {c}]]
              /\ cView' = [cView EXCEPT ![c] = st]
              /\ nGens' = nGens + 1
              /\ cPc' = [cPc EXCEPT ![c] = "anext"]
              /\ cExc' = cExc
  /\ UNCHANGED <<inst, ctor, cFirst, cMsg, cCount, cSink>>

\* Line 44 of invocation c: its generator yields None or a response, or raises.
CFirst(c) ==
  /\ cPc[c] = "anext"
  /\ \E outcome \in {"none", "response", "raise"} :
       LET st == IF outcome = "raise" THEN "finished" ELSE "first_yield"
       IN  /\ gens' = [gens EXCEPT ![cGen[c]].state = st]
           /\ cView' = [cView EXCEPT ![c] = st]
           /\ cFirst' = [cFirst EXCEPT ![c] =
                IF outcome = "none" THEN [kind |-> "none"]
                ELSE IF outcome = "response"
                     THEN CHOOSE r \in ShortResponses : TRUE
                     ELSE @]
           /\ cExc' = [cExc EXCEPT ![c] =
                IF outcome = "raise" THEN "GenError" ELSE @]
           /\ cPc' = [cPc EXCEPT ![c] =
                IF outcome = "raise" THEN "unwind" ELSE "decide"]
  /\ UNCHANGED <<inst, ctor, cGen, nGens, cMsg, cCount, cSink>>

\* Lines 45-47 of invocation c: the yielded response sends itself to the
\* real send of c.
CShortCircuit(c) ==
  /\ cPc[c] = "decide"
  /\ cFirst[c].kind = "response"
  /\ cSink' = [cSink EXCEPT ![c] = @ \o ResponseMessages(cFirst[c])]
  /\ cPc' = [cPc EXCEPT ![c] = "unwind"]
  /\ UNCHANGED <<inst, ctor, cGen, cView, gens, nGens, cFirst, cMsg, cCount,
                 cExc>>

\* Line 70 of invocation c: self._app is called with c's wrapped_send.
CInvoke(c) ==
  /\ cPc[c] = "decide"
  /\ cFirst[c].kind = "none"
  /\ cPc' = [cPc EXCEPT ![c] = "app"]
  /\ UNCHANGED <<inst, ctor, cGen, cView, gens, nGens, cFirst, cMsg, cCount,
                 cSink, cExc>>

\* The application of invocation c passes a message to c's wrapped_send.
CAppSend(c) ==
  /\ cPc[c] = "app"
  /\ cCount[c] < MaxConnMsgs
  /\ \E m \in HandlerMsgs : cMsg' = [cMsg EXCEPT ![c] = m]
  /\ cCount' = [cCount EXCEPT ![c] = @ + 1]
  /\ cPc' = [cPc EXCEPT ![c] = "wsend"]
  /\ UNCHANGED <<inst, ctor, cGen, cView, gens, nGens, cFirst, cSink, cExc>>

\* Lines 50-67 of the wrapped_send of invocation c: a start message resumes
\* the generator the closure's `gen` names.
CWrappedSend(c) ==
  /\ cPc[c] = "wsend"
  /\ LET g == cGen[c]
         media_type == MediaTypeOf(cMsg[c])
         response == DescriptorOf(cMsg[c])
     IN  \/ /\ ~IsResponseStart(cMsg[c])
            /\ cPc' = [cPc EXCEPT ![c] = "fwd"]
            /\ UNCHANGED <<gens, cView, cMsg, cExc>>
         \/ /\ IsResponseStart(cMsg[c])
            /\ gens[g].state # "first_yield"
            /\ gens' = [gens EXCEPT ![g].users = @ \cup {c}]
            /\ cMsg' = [cMsg EXCEPT ![c] = MergeBack(@, response, media_type)]
            /\ cPc' = [cPc EXCEPT ![c] = "fwd"]
            /\ UNCHANGED <<cView, cExc>>
         \/ /\ IsResponseStart(cMsg[c])
            /\ gens[g].state = "first_yield"
            /\ \E ending \in {"stop", "yield", "raise"} :
                 LET st == IF ending = "yield" THEN "second_yield" ELSE "finished"
                 IN  /\ gens' = [gens EXCEPT ![g] =
                           [state |-> st, users |-> @.users \cup {c}]]
                     /\ cView' = [cView EXCEPT ![c] = st]
                     /\ cExc' = [cExc EXCEPT ![c] = AsendOutcome(ending)]
                     /\ IF AsendOutcome(ending) = "none"
                        THEN /\ cMsg' = [cMsg EXCEPT ![c] =
                                  MergeBack(@, response, media_type)]
                             /\ cPc' = [cPc EXCEPT ![c] = "fwd"]
                        ELSE /\ cMsg' = [cMsg EXCEPT ![c] = NoMsg]
                             /\ cPc' = [cPc EXCEPT ![c] = "unwind"]
  /\ UNCHANGED <<inst, ctor, cGen, nGens, cFirst, cCount, cSink>>

\* Line 68 of the wrapped_send of invocation c: the message is passed to
\* the real send of c.
CForward(c) ==
  /\ cPc[c] = "fwd"
  /\ cSink' = [cSink EXCEPT ![c] = Append(@, cMsg[c])]
  /\ cMsg' = [cMsg EXCEPT ![c] = NoMsg]
  /\ cPc' = [cPc EXCEPT ![c] = "app"]
  /\ UNCHANGED <<inst, ctor, cGen, cView, gens, nGens, cFirst, cCount, cExc>>

\* The application of invocation c returns or raises.
CAppEnd(c) ==
  /\ cPc[c] = "app"
  /\ \E e \in {"none", "AppError"} : cExc' = [cExc EXCEPT ![c] = e]
  /\ cPc' = [cPc EXCEPT ![c] = "unwind"]
  /\ UNCHANGED <<inst, ctor, cGen, cView, gens, nGens, cFirst, cMsg, cCount,
                 cSink>>

\* Line 43 of invocation c, leaving the block: its generator is closed.
CExit(c) ==
  /\ cPc[c] = "unwind"
  /\ gens' = [gens EXCEPT ![cGen[c]] =
                [state |-> "finished", users |-> @.users \cup {c}]]
  /\ cView' = [cView EXCEPT ![c] = "finished"]
  /\ cPc' = [cPc EXCEPT ![c] = "done"]
  /\ UNCHANGED <<inst, ctor, cGen, nGens, cFirst, cMsg, cCount, cSink, cExc>>

CInit ==
  /\ SIdle
  /\ CIdle
  /\ pc = "idle"
  /\ genState = "none"
  /\ first = [kind |-> "unset"]
  /\ cur = NoMsg
  /\ appSent = << >>
  /\ sink = << >>
  /\ exc = "none"
  /\ phase2 = [idx |-> 0, mut |-> NoMutation, end |-> "none"]
  /\ log = << >>

CNext ==
  \/ Construct /\ UNCHANGED <<vars, svars>>
  \/ (\E c \in Conns : CEnter(c)) /\ UNCHANGED <<vars, svars>>
  \/ (\E c \in Conns : CFirst(c)) /\ UNCHANGED <<vars, svars>>
  \/ (\E c \in Conns : CShortCircuit(c)) /\ UNCHANGED <<vars, svars>>
  \/ (\E c \in Conns : CInvoke(c)) /\ UNCHANGED <<vars, svars>>
  \/ (\E c \in Conns : CAppSend(c)) /\ UNCHANGED <<vars, svars>>
  \/ (\E c \in Conns : CWrappedSend(c)) /\ UNCHANGED <<vars, svars>>
  \/ (\E c \in Conns : CForward(c)) /\ UNCHANGED <<vars, svars>>
  \/ (\E c \in Conns : CAppEnd(c)) /\ UNCHANGED <<vars, svars>>
  \/ (\E c \in Conns : CExit(c)) /\ UNCHANGED <<vars, svars>>

SpecConn == CInit /\ [][CNext]_<<vars, svars, cvars>>

\* ------------------------------------------------------------- properties

AppInvoked == "app.call" \in Range(log)

SinkMsgs == [i \in 1..Len(sink) |-> sink[i].msg]

\* No wrapped_send call is running.
Quiescent == pc \in {"app", "exit", "done"}

\* The sink's entry for the message the second phase was resumed on.
Phase2Entries == {i \in 1..Len(sink) : sink[i].idx = phase2.idx}

HeaderNames(raw) == {Lower(raw[i][1]) : i \in 1..Len(raw)}

RECURSIVE Without(_, _)
\* The pairs of raw whose name is not in names, in order.
Without(raw, names) ==
  IF raw = << >> THEN << >>
  ELSE IF Lower(Head(raw)[1]) \in names THEN Without(Tail(raw), names)
       ELSE <<Head(raw)>> \o Without(Tail(raw), names)

\* The header names the second phase touched.
Touched(mut) ==
  (IF mut.header[1] = "" THEN {} ELSE {Lower(mut.header[1])})
    \cup (IF mut.media = "" THEN {} ELSE {"content-type"})

\* C1: when the generator's first yielded value is a response, the inner
\* application is never invoked and the real send receives exactly the
\* messages of that response, from the response itself (idx 0), in order;
\* all of them once __call__ has returned.
C1_ShortCircuit ==
  first.kind = "response" =>
    /\ ~AppInvoked
    /\ appSent = << >>
    /\ \A i \in 1..Len(sink) : sink[i].idx = 0
    /\ IsPrefix(SinkMsgs, ResponseMessages(first))
    /\ (pc = "done" /\ exc = "none" => SinkMsgs = ResponseMessages(first))

C1_Witness ==
  /\ first.kind = "response"
  /\ pc = "done"
  /\ exc = "none"
  /\ Len(sink) = 2
  /\ sink[1].msg.status = 401

\* C2 as claimed: the first phase precedes the invocation of the inner
\* application, and the second phase precedes every forwarded
\* http.response.start and every forwarded http.response.body message.
C2_Original ==
  /\ \A i \in 1..Len(log) :
       log[i] = "app.call" => \E j \in 1..(i - 1) : log[j] = "gen.phase1"
  /\ \A i \in 1..Len(log) :
       log[i] \in {START, BODY} => \E j \in 1..(i - 1) : log[j] = "gen.phase2"

\* C2 (amended): the first phase precedes the invocation of the inner
\* application; the second phase precedes every forwarded
\* http.response.start message, and so every http.response.body message
\* forwarded after a forwarded start message.
C2_PhaseOrder ==
  /\ \A i \in 1..Len(log) :
       log[i] = "app.call" => \E j \in 1..(i - 1) : log[j] = "gen.phase1"
  /\ \A i \in 1..Len(log) :
       log[i] = START => \E j \in 1..(i - 1) : log[j] = "gen.phase2"
  /\ \A i \in 1..Len(log) :
       (log[i] = BODY /\ \E k \in 1..(i - 1) : log[k] = START)
         => \E j \in 1..(i - 1) : log[j] = "gen.phase2"

C2_Witness ==
  /\ pc = "done"
  /\ Len(sink) = 2
  /\ sink[1].msg.type = START
  /\ sink[2].msg.type = BODY
  /\ phase2.end = "stop"

\* C3: when the second phase yields again, wrapped_send raises
\* RuntimeError("Generator did not stop"), which is what __call__ ends with;
\* the start message being processed is never passed to the real send, and
\* no start message at all is.
C3_GeneratorDidNotStop ==
  phase2.end = "yield" =>
    /\ exc = "RuntimeError: Generator did not stop"
    /\ pc \in {"exit", "done"}
    /\ Phase2Entries = {}
    /\ \A i \in 1..Len(sink) : sink[i].msg.type # START

C3_Witness ==
  /\ phase2.end = "yield"
  /\ pc = "done"
  /\ appSent[Len(appSent)].type = START

C7_Original ==
  Quiescent /\ AppInvoked =>
    /\ Len(sink) = Len(appSent)
    /\ \A i \in 1..Len(sink) : sink[i].idx = i

\* C7 (amended): the real send receives the messages in the order the inner
\* application passed them, none twice and none skipped; the only message
\* not passed on is the last one, while its wrapped_send call still runs or
\* when it is the start message on which the second phase yielded again or
\* raised (wrapped_send then raises instead of forwarding).
C7_InOrderOnce ==
  AppInvoked =>
    /\ \A i \in 1..Len(sink) : sink[i].idx = i
    /\ Len(sink) <= Len(appSent)
    /\ Len(sink) >= Len(appSent) - 1
    /\ (Quiescent /\ Len(sink) < Len(appSent)) =>
         /\ phase2.end \in {"yield", "raise"}
         /\ phase2.idx = Len(appSent)
         /\ appSent[Len(appSent)].type = START
         /\ exc \in {"RuntimeError: Generator did not stop", "GenError"}

C7_Witness ==
  /\ pc = "done"
  /\ Len(appSent) = 3
  /\ Len(sink) = 2
  /\ phase2.end = "raise"
  /\ sink[2].idx = 2

\* C8: a message whose type is not http.response.start reaches the real send
\* with every field as the inner application passed it, and while
\* wrapped_send holds such a message the generator is neither resumed nor
\* changed.
C8_SinkUnchanged ==
  \A i \in 1..Len(sink) :
    (sink[i].idx > 0 /\ appSent[sink[i].idx].type # START)
      => sink[i].msg = appSent[sink[i].idx]

C8_GenUntouched ==
  (cur.type \notin {"nil", START}) =>
    /\ genState' = genState
    /\ phase2' = phase2
    /\ Count(log', "gen.asend") = Count(log, "gen.asend")
    /\ Count(log', "gen.phase2") = Count(log, "gen.phase2")

C8_OtherMessages == []C8_SinkUnchanged /\ [][C8_GenUntouched]_vars

C8_Witness ==
  /\ genState = "first_yield"
  /\ Len(sink) = 2
  /\ sink[1].msg = Msg(BODY, 0, << >>, "Ok")
  /\ sink[2].msg = Msg("websocket.send", 0, << >>, "Hello")

\* C9: whenever __call__ has exited, on whatever path, the generator is
\* finished and aclose was called exactly once; it is never called earlier.
C9_ClosedOnce ==
  /\ Count(log, "gen.aclose") = (IF pc = "done" THEN 1 ELSE 0)
  /\ pc = "done" => genState = "finished"

C9_Witness ==
  /\ pc = "done"
  /\ exc = "Cancelled"
  /\ phase2.end = "stop"
  /\ Len(sink) = 2

\* C10: when the inner application raises, before or after the start
\* message was forwarded, __call__ ends with that same exception, and after
\* the raise the adapter does nothing but close the generator.
C10_AppErrorPropagates ==
  \A i \in 1..Len(log) :
    log[i] = "app.raise" =>
      /\ exc = "AppError"
      /\ pc \in {"exit", "done"}
      /\ SubSeq(log, i + 1, Len(log)) \in {<< >>, <<"gen.aclose">>}
      /\ Count(log, START) + Count(log, BODY) + Count(log, "websocket.send")
           = Len(sink)

C10_Witness ==
  /\ pc = "done"
  /\ exc = "AppError"
  /\ "app.raise" \in Range(log)
  /\ Len(sink) = 1
  /\ sink[1].msg.type = START

AppSentTypes == {appSent[i].type : i \in 1..Len(appSent)}

\* C13: when the real send raises or is cancelled on a message forwarded
\* after the start message was handed over, the exception leaves
\* wrapped_send and the application as it is (it is what __call__ ends
\* with); that message was passed to the real send once, nothing is
\* forwarded afterwards and the generator is not resumed again: only the
\* close follows.
C13_SendErrorPropagates ==
  \A i \in 1..Len(log) :
    (log[i] = "send.raise" /\ AppInvoked
       /\ \E k \in 1..(i - 2) : log[k] = START) =>
      /\ exc \in {"SendError", "Cancelled"}
      /\ pc \in {"exit", "done"}
      /\ SubSeq(log, i + 1, Len(log)) \in {<< >>, <<"gen.aclose">>}
      /\ Len(sink) = Len(appSent)
      /\ \A j \in 1..Len(sink) : sink[j].idx = j
      /\ Count(log, "gen.phase2") = 1

C13_Witness ==
  /\ pc = "done"
  /\ exc = "SendError"
  /\ Len(sink) = 2
  /\ sink[1].msg.type = START
  /\ sink[2].msg.type = BODY
  /\ log[Len(log) - 1] = "send.raise"

\* C14: when the inner application never passes an http.response.start
\* message, the generator is never resumed with a descriptor, its second
\* phase never runs, and the real send receives the messages as passed.
C14_NoStart ==
  (AppInvoked /\ START \notin AppSentTypes) =>
    /\ Count(log, "gen.asend") = 0
    /\ Count(log, "gen.phase2") = 0
    /\ phase2.end = "none"
    /\ genState = (IF pc = "done" THEN "finished" ELSE "first_yield")
    /\ IsPrefix(SinkMsgs, appSent)
    /\ Len(sink) >= Len(appSent) - 1
    /\ (Quiescent => SinkMsgs = appSent)

C14_Witness ==
  /\ pc = "done"
  /\ exc = "none"
  /\ AppInvoked
  /\ Len(sink) = 2
  /\ sink[1].msg.type = "websocket.send"
  /\ sink[2].msg.type = "websocket.send"

\* C16: the generator is advanced exactly once, before the decision whether
\* to invoke the inner application; its second phase runs at most once, and
\* exactly once when the inner application has passed a start message (one
\* or several), never otherwise.
C16_Resumptions ==
  /\ Count(log, "gen.phase1") = (IF pc \in {"idle", "anext"} THEN 0 ELSE 1)
  /\ \A i \in 1..Len(log) :
       log[i] \in {"app.call", "response.send"}
         => \E j \in 1..(i - 1) : log[j] = "gen.phase1"
  /\ Count(log, "gen.phase2") <= 1
  /\ Count(log, "gen.phase2") = (IF phase2.end = "none" THEN 0 ELSE 1)
  /\ Quiescent =>
       (Count(log, "gen.phase2") = 1 <=> (AppInvoked /\ START \in AppSentTypes))

C16_Witness ==
  /\ pc = "done"
  /\ Len(sink) = 3
  /\ sink[1].msg.type = START
  /\ sink[2].msg.type = START
  /\ sink[3].msg.type = BODY
  /\ Count(log, "gen.phase2") = 1
  /\ Count(log, "gen.asend") = 2

\* C17: an exception of the generator's first phase is what __call__ ends
\* with, the inner application not invoked and nothing sent; an exception
\* of its second phase leaves wrapped_send (and the application) as it is,
\* and the start message being processed is not passed to the real send.
C17_GeneratorErrors ==
  /\ (first.kind = "unset" /\ pc \in {"exit", "done"}) =>
       /\ exc \in {"GenError", "StopAsyncIteration"}
       /\ ~AppInvoked
       /\ sink = << >>
  /\ phase2.end = "raise" =>
       /\ exc = "GenError"
       /\ pc \in {"exit", "done"}
       /\ Phase2Entries = {}
       /\ Len(sink) = Len(appSent) - 1
       /\ log[Len(log)] \in {"gen.phase2", "gen.aclose"}

C17_Witness ==
  /\ phase2.end = "raise"
  /\ pc = "done"
  /\ exc = "GenError"
  /\ Len(appSent) = 2
  /\ appSent[1].type = BODY

\* C18 as claimed: when the inner application raises before passing any
\* start message, the generator is not resumed, it is closed while suspended
\* at its first yield, and the real send has received no message.
C18_Original ==
  \A i \in 1..Len(log) :
    (log[i] = "app.raise" /\ START \notin AppSentTypes) =>
      /\ Count(log, "gen.asend") = 0
      /\ Count(log, "gen.phase2") = 0
      /\ genState = (IF pc = "done" THEN "finished" ELSE "first_yield")
      /\ sink = << >>

\* C18 (amended): when the inner application raises before passing any
\* start message, the generator is not resumed, it is closed while suspended
\* at its first yield, and the real send has received nothing but the
\* messages of other types the application passed before it raised, as
\* passed.
C18_RaiseBeforeStart ==
  \A i \in 1..Len(log) :
    (log[i] = "app.raise" /\ START \notin AppSentTypes) =>
      /\ Count(log, "gen.asend") = 0
      /\ Count(log, "gen.phase2") = 0
      /\ genState = (IF pc = "done" THEN "finished" ELSE "first_yield")
      /\ SinkMsgs = appSent

C18_Witness ==
  /\ pc = "done"
  /\ exc = "AppError"
  /\ appSent = << >>
  /\ sink = << >>
  /\ "app.raise" \in Range(log)

\* ------------------------------------------------- properties of the stack

HeaderValue(m, k) == HeadersGet(Headers(m.headers), k)

\* Positions of the log holding an event of that kind by that layer.
Events(ev, who) == {i \in 1..Len(sLog) : sLog[i].ev = ev /\ sLog[i].who = who}

\* The outermost layer stored its value in its first phase.
ASetValue == \E i \in Events("phase1", 1) : sLog[i].bag[1] = BagValue(1)

\* The innermost layer's second phase set its header and then stopped.
CSetHeader ==
  /\ sPhase2[NLayers].end = "stop"
  /\ sPhase2[NLayers].mut.header = LayerHeader(NLayers)

\* C11: a value the outermost layer A stores in the state bag in its first
\* phase is read by the first and second phases of B and C and by the
\* handler; a header the innermost layer C sets in its second phase is in
\* the message, with its value, when the second phases of B and of A run on
\* it, and in the message the real send receives.
C11_SharedStateAndHeaders ==
  /\ ASetValue =>
       \A i \in 1..Len(sLog) :
         (sLog[i].ev \in {"phase1", "phase2", "handler"} /\ sLog[i].who > 1) =>
           sLog[i].bag[1] = BagValue(1)
  /\ CSetHeader =>
       /\ \A l \in Layers \ {NLayers} : \A i \in Events("phase2", l) :
            HeaderValue(sLog[i].msg, LayerHeader(NLayers)[1])
              = LayerHeader(NLayers)[2]
       /\ \A i \in 1..Len(sSink) :
            (/\ sSink[i].origin = sPhase2[NLayers].origin
             /\ sSink[i].idx = sPhase2[NLayers].idx) =>
              HeaderValue(sSink[i].msg, LayerHeader(NLayers)[1])
                = LayerHeader(NLayers)[2]

C11_Witness ==
  /\ sPc = "done"
  /\ sExc = "none"
  /\ ASetValue
  /\ CSetHeader
  /\ \A l \in Layers : Events("phase2", l) # {} /\ sPhase2[l].end = "stop"
  /\ \A l \in Layers : sPhase2[l].mut.media = "text/plain"
  /\ Events("handler", Handler) # {}
  /\ Len(sSink) = 2
  /\ sSink[1].msg.type = START
  /\ sSink[1].origin = Handler

\* Positions of the log where the real send received a start message.
SinkStarts == {i \in 1..Len(sLog) : sLog[i].ev = "sink" /\ sLog[i].msg.type = START}

\* Each layer's first phase runs before the first phase of the layer nested
\* inside it, and the innermost layer's before the handler.
FirstPhasesNested ==
  /\ \A l \in Layers \ {NLayers} : \A j \in Events("phase1", l + 1) :
       \E i \in Events("phase1", l) : i < j
  /\ \A j \in Events("handler", Handler) :
       \A l \in Layers : \E i \in Events("phase1", l) : i < j

\* C12 (as stated): each layer's first phase completes before the first
\* phase of the layer nested inside it and before the handler; each layer's
\* second phase starts only after the second phases of all layers nested
\* inside it have completed; a start message reaches the real send only
\* after the outermost layer's second phase has completed.
C12_Original ==
  /\ FirstPhasesNested
  /\ \A l \in Layers : \A i \in Events("phase2", l) :
       \A n \in Layers : n > l =>
         /\ sPhase2[n].end = "stop"
         /\ \E j \in Events("phase2", n) : j < i
  /\ \A i \in SinkStarts :
       /\ sPhase2[1].end = "stop"
       /\ \E j \in Events("phase2", 1) : j < i

\* C12 (amended): first phases run outermost first, and before the handler.
\* A layer's second phase starts on a message only after the second phases
\* of the layers between it and the sender of the message (the handler, or
\* a layer that short-circuited) have completed on that message; the
\* sender's layer and the layers inside it run no second phase on it. A
\* start message reaches the real send only after the second phases of all
\* layers around its sender have completed; the start message of a response
\* the outermost layer yielded reaches it with no second phase run.
C12_NestedOrder ==
  /\ FirstPhasesNested
  /\ \A l \in Layers : \A i \in Events("phase2", l) :
       /\ sPhase2[l].origin > l
       /\ \A n \in Layers : (l < n /\ n < sPhase2[l].origin) =>
            /\ sPhase2[n].end = "stop"
            /\ sPhase2[n].origin = sPhase2[l].origin
            /\ sPhase2[n].idx = sPhase2[l].idx
            /\ \E j \in Events("phase2", n) : j < i
       /\ \A n \in Layers : n >= sPhase2[l].origin => Events("phase2", n) = {}
  /\ \A i \in SinkStarts : \A n \in Layers : n < sLog[i].who =>
       /\ sPhase2[n].end = "stop"
       /\ \E j \in Events("phase2", n) : j < i
  /\ \A i \in SinkStarts : sLog[i].who = 1 =>
       \A n \in Layers : Events("phase2", n) = {}

C12_Witness ==
  /\ sPc = "done"
  /\ sExc = "none"
  /\ sFirst[1].kind = "none"
  /\ sFirst[2].kind = "none"
  /\ sFirst[3].kind = "response"
  /\ \A l \in {1, 2} : sPhase2[l].end = "stop" /\ sPhase2[l].origin = 3
  /\ Events("phase2", 3) = {}
  /\ SinkStarts # {}

\* C19: when the middle layer B yields a response in its first phase, the
\* first phase of C and the handler never run and B's generator is never
\* resumed; the start message of B's response is passed to A's wrapped
\* send, whose second phase runs on it before the real send receives it,
\* and it has run whenever the request ends without an exception.
C19_MiddleShortCircuit ==
  sFirst[2].kind = "response" =>
    /\ Events("phase1", 3) = {}
    /\ Events("handler", Handler) = {}
    /\ sGen[3] = "none"
    /\ Events("phase2", 2) = {}
    /\ sPhase2[2] = NoPhase2
    /\ sGen[2] \in {"first_yield", "finished"}
    /\ \A i \in SinkStarts :
         /\ sLog[i].who = 2
         /\ \E j \in Events("phase2", 1) :
              /\ j < i
              /\ sLog[j].msg = ResponseMessages(sFirst[2])[1]
         /\ sPhase2[1].origin = 2
         /\ sLog[i].msg =
              MergeBack(ResponseMessages(sFirst[2])[1],
                        Mutate(DescriptorOf(ResponseMessages(sFirst[2])[1]),
                               sPhase2[1].mut),
                        MediaTypeOf(ResponseMessages(sFirst[2])[1]))
    /\ (sPc = "done" /\ sExc = "none") =>
         /\ Events("phase2", 1) # {}
         /\ SinkStarts # {}

C19_Witness ==
  /\ sPc = "done"
  /\ sExc = "none"
  /\ sFirst[2].kind = "response"
  /\ sPhase2[1].end = "stop"
  /\ sPhase2[1].mut.header = LayerHeader(1)
  /\ Len(sSink) = 2
  /\ HeaderValue(sSink[1].msg, LayerHeader(1)[1]) = LayerHeader(1)[2]
  /\ sSink[1].msg.status = 401

\* ------------------------ properties of construction and of concurrent use

Constructed == inst.state # "none"

\* C15: the constructor raises ValueError exactly when it gets no dispatch
\* argument on a class that does not override dispatch; then there is no
\* instance and no invocation ever starts. Otherwise the instance exists
\* and its dispatch function is the argument, or the overriding method when
\* there is no argument; no invocation ever fails for lack of a dispatch
\* function.
C15_NoDispatchFunction ==
  /\ Constructed =>
       (inst.state = "ValueError" <=> (ctor.dispatch = None /\ ~ctor.overrides))
  /\ inst.state \in {"none", "ValueError"} =>
       /\ inst._dispatch = None
       /\ \A c \in Conns : cPc[c] = "idle" /\ cGen[c] = 0
  /\ inst.state = "ok" =>
       /\ inst._dispatch # BaseDispatch
       /\ inst._dispatch = (IF ctor.dispatch # None THEN ctor.dispatch
                            ELSE "Subclass.dispatch")
  /\ \A c \in Conns : cExc[c] # "NotImplementedError"

C15_Witness ==
  /\ inst.state = "ValueError"
  /\ ctor = [dispatch |-> None, overrides |-> FALSE]

\* Each invocation has a generator of its own, no generator was ever used
\* by an invocation other than the one that made it, and each invocation's
\* generator is in the state that invocation left it in.
C20_OwnGenerator ==
  /\ \A c, d \in Conns : (c # d /\ cGen[c] # 0) => cGen[c] # cGen[d]
  /\ \A g \in GenIds : gens[g].users \subseteq {c \in Conns : cGen[c] = g}
  /\ \A c \in Conns : cGen[c] # 0 => gens[cGen[c]].state = cView[c]

\* A step changes a generator only if it is a step of the invocation whose
\* generator it is, and no step changes the instance once it is constructed.
C20_StepIsolated ==
  /\ \A g \in GenIds : gens'[g] # gens[g] =>
       \E c \in Conns : cPc'[c] # cPc[c] /\ cGen'[c] = g
  /\ Constructed => inst' = inst

\* C20: with several invocations of one instance in flight, interleaved at
\* their awaits, each drives its own generator through its own
\* wrapped_send: a start message of one invocation never resumes, exhausts
\* or closes the generator of another, and _app and _dispatch never change
\* after construction.
C20_Concurrent == []C20_OwnGenerator /\ [][C20_StepIsolated]_cvars

C20_Witness ==
  /\ cPc[1] = "fwd"
  /\ IsResponseStart(cMsg[1])
  /\ gens[cGen[1]].state = "finished"
  /\ cPc[2] = "app"
  /\ cCount[2] = 0
  /\ gens[cGen[2]].state = "first_yield"
  /\ cGen[1] # cGen[2]

====
